---- MODULE Spec2Model ----
(***************************************************************************)
(* Two maintenance scripts over a DynamoDB table.                          *)
(*                                                                         *)
(*   backend/scripts/cleanup-duplicates.py   (the deduplicator, Spec)      *)
(*   backend/scripts/migrate-hero-to-slides.py (the field migrator,        *)
(*                                              MigSpec)                   *)
(*                                                                         *)
(* Strings that the code takes apart are sequences of tokens: the key      *)
(* "CMS_PAGE#<id>" is <<"CMS_PAGE#", "<id>">>.  An optional attribute of   *)
(* an item is a set: {} when the item lacks it, {v} when it holds v.       *)
(* createdAt strings are compared by the code as strings; they are         *)
(* modelled by their rank, "" being rank 0.                                *)
(***************************************************************************)
EXTENDS Integers, Sequences, FiniteSets, TLC

\* ------------------------------------------------------------------ bounds
MaxPages == 3
MaxComps == 2

\* slug values of the seeded pages that have one
Slugs == {"home"}
\* the slugs the script can meet ("" stands in for a missing slug), in the
\* order sorted() gives them
SlugOrder == <<"", "home">>
\* createdAt values of the seeded pages, by rank
Times == {1}
\* pages that seeded components refer to
Referred == {1, 2}

PAGE_PREFIX == "CMS_PAGE#"
COMPONENT_PREFIX == "CMS_COMPONENT#"

\* ------------------------------------------------------------ deduplicator
VARIABLES
  table,                 \* the store: items in the store's scan order
  rerun,                 \* TRUE in the second run of the script
  steps,                 \* the numbered steps of the script completed so far
  pc,                    \* position of the script
  exitCode,              \* process exit code, meaningful when pc = "exited"
  last_key,              \* scan_all: <<>> is None, <<k>> a continuation key
  pages,                 \* result of the page scan
  pages_to_delete,
  components,            \* result of the component scan
  components_to_delete,
  i,                     \* index of the delete loop at hand
  report,                \* <<>> until the final two print lines, then <<r>>
  calls,                 \* store calls of this run, in order
  scanError,             \* aws_cmd printed "ERROR: ..." and left with 1
  startTable,            \* the table as this run found it
  prev                   \* how the previous run ended

\* --------------------------------------------------------- field migrator
VARIABLES
  devTable,              \* the store of the migrator, in its scan order
  mpc,                   \* position of the migrator
  events_data,           \* the response of table.scan
  item_no,               \* index of the item of the for loop at hand
  mrerun,                \* TRUE in the second run of the migrator
  devStart               \* the table as this run of the migrator found it

mvars == <<devTable, mpc, events_data, item_no, mrerun, devStart>>

dvars == <<table, rerun, steps, pc, exitCode, last_key, pages, pages_to_delete,
           components, components_to_delete, i, report, calls, scanError,
           startTable, prev>>

\* dict.get(attr, {}).get("S", dflt)
GetS(attr, dflt) == IF attr = {} THEN dflt ELSE CHOOSE v \in attr : TRUE

Range(s) == {s[k] : k \in 1..Len(s)}

\* ---- items of the table
PageItem(id, slug, created) ==
  [PK |-> <<PAGE_PREFIX, ToString(id)>>, SK |-> <<PAGE_PREFIX, ToString(id)>>,
   slug |-> slug, createdAt |-> created, pageId |-> {}]

ComponentItem(id, pageId) ==
  [PK |-> <<COMPONENT_PREFIX, ToString(id)>>,
   SK |-> <<COMPONENT_PREFIX, ToString(id)>>,
   slug |-> {}, createdAt |-> {}, pageId |-> pageId]

SlugAttrs == {{}} \cup {{v} : v \in Slugs}
TimeAttrs == {{}} \cup {{t} : t \in Times}
PageIdAttrs == {{}} \cup {{<<ToString(p)>>} : p \in Referred}

SeededPages ==
  UNION { { [k \in 1..n |-> PageItem(k, f[k][1], f[k][2])] :
              f \in [1..n -> SlugAttrs \X TimeAttrs] } : n \in 0..MaxPages }

SeededComponents ==
  UNION { { [k \in 1..m |-> ComponentItem(k, f[k])] :
              f \in [1..m -> PageIdAttrs] } : m \in 0..MaxComps }

\* str.startswith, the begins_with(PK, :pk) filter of the scans
begins_with(s, prefix) == Len(s) >= 1 /\ s[1] = prefix

\* str.replace(old, ""): every occurrence of old is removed
replace(s, old) == SelectSeq(s, LAMBDA t : t # old)

\* ---- aws_cmd(["dynamodb", "scan", ...]) when the command succeeds.
\* The store answers with the filtered, projected items of the next stretch
\* of the table, and with a LastEvaluatedKey unless the stretch ends the table.
ProjectPage(r) ==
  [PK |-> r.PK, SK |-> r.SK, slug |-> r.slug, createdAt |-> r.createdAt]
ProjectComponent(r) == [PK |-> r.PK, SK |-> r.SK, pageId |-> r.pageId]

MapSeq(s, Op(_)) == [k \in 1..Len(s) |-> Op(s[k])]

ScanStart == IF last_key = <<>> THEN 0 ELSE last_key[1]

ScanStops ==
  IF ScanStart >= Len(table) THEN {Len(table)} ELSE (ScanStart + 1)..Len(table)

ScanResponse(prefix, stop) ==
  LET stretch == SubSeq(table, ScanStart + 1, stop)
      hits == SelectSeq(stretch, LAMBDA r : begins_with(r.PK, prefix))
  IN [Items |-> IF prefix = PAGE_PREFIX THEN MapSeq(hits, ProjectPage)
                                        ELSE MapSeq(hits, ProjectComponent),
      LastEvaluatedKey |-> IF stop < Len(table) THEN <<stop>> ELSE <<>>]

\* ---- step 2: group by slug, mark all but the newest of each group
GroupEntry(p) ==
  [pk |-> p.PK, sk |-> p.SK, created |-> GetS(p.createdAt, 0)]

\* mutant: the slug is read from an attribute no page has, so every page
\* falls back to the default slug ""
slug_groups_default_only(ps) ==
  [s \in {"" : k \in 1..Len(ps)} |-> MapSeq(ps, GroupEntry)]

slug_groups(ps) ==
  [s \in {GetS(ps[k].slug, "") : k \in 1..Len(ps)} |->
     MapSeq(SelectSeq(ps, LAMBDA p : GetS(p.slug, "") = s), GroupEntry)]

\* list.sort(key=created): ascending and stable
InsertByCreated(x, s) ==
  LET k == Cardinality({j \in 1..Len(s) : s[j].created <= x.created})
  IN SubSeq(s, 1, k) \o <<x>> \o SubSeq(s, k + 1, Len(s))

\* mutant: the sort is descending, so that the oldest entry comes last
RECURSIVE SortByCreated_Descending(_)
SortByCreated_Descending(g) ==
  IF Len(g) <= 1 THEN g
  ELSE LET rest == SortByCreated_Descending(SubSeq(g, 1, Len(g) - 1))
           x == g[Len(g)]
           k == Cardinality({j \in 1..Len(rest) : rest[j].created >= x.created})
       IN SubSeq(rest, 1, k) \o <<x>> \o SubSeq(rest, k + 1, Len(rest))

RECURSIVE SortByCreated(_)
SortByCreated(g) ==
  IF Len(g) <= 1 THEN g
  ELSE InsertByCreated(g[Len(g)], SortByCreated(SubSeq(g, 1, Len(g) - 1)))

\* group[:-1] of the sorted group, each entry tagged with the slug
GroupDuplicates(slug, group) ==
  LET sorted == SortByCreated(group)
  IN [k \in 1..(Len(sorted) - 1) |->
        [slug |-> slug, pk |-> sorted[k].pk, sk |-> sorted[k].sk,
         created |-> sorted[k].created]]

RECURSIVE MarkFrom(_, _)
MarkFrom(groups, k) ==
  IF k > Len(SlugOrder) THEN <<>>
  ELSE LET slug == SlugOrder[k]
       IN (IF slug \in DOMAIN groups /\ Len(groups[slug]) > 1
             THEN GroupDuplicates(slug, groups[slug]) ELSE <<>>)
          \o MarkFrom(groups, k + 1)

MarkDuplicates(ps) == MarkFrom(slug_groups(ps), 1)

\* ---- step 4: components of the pages to delete
\* mutant: the prefix is not stripped from the PK
page_ids_unstripped(ptd) == {ptd[k].pk : k \in 1..Len(ptd)}

page_ids_to_delete(ptd) == {replace(ptd[k].pk, PAGE_PREFIX) : k \in 1..Len(ptd)}

OrphanEntry(c) == [pk |-> c.PK, sk |-> c.SK, pageId |-> GetS(c.pageId, <<>>)]

FindOrphans(cs, ptd) ==
  MapSeq(SelectSeq(cs, LAMBDA c :
                     GetS(c.pageId, <<>>) \in page_ids_to_delete(ptd)),
         OrphanEntry)

\* ---- delete_item: the store after the call, by the command's outcome
\* mutant: the key of the call names no item, so that the command succeeds
\* and removes nothing
StoreAfterDelete_WrongKey(t, pk, sk, ok) == t

StoreAfterDelete(t, pk, sk, ok) ==
  IF ok THEN SelectSeq(t, LAMBDA r : ~(r.PK = pk /\ r.SK = sk)) ELSE t

DeleteCall(kind, e, ok) == [kind |-> kind, pk |-> e.pk, sk |-> e.sk, ok |-> ok]

NoResponse == [Items |-> <<>>, LastEvaluatedKey |-> <<>>]

\* the migrator is not run
MIdle ==
  /\ devTable = <<>>
  /\ devStart = <<>>
  /\ mpc = "idle"
  /\ events_data = NoResponse
  /\ item_no = 1
  /\ mrerun = FALSE

NoPrev == [exitCode |-> 0, failed |-> FALSE, deleted |-> 0]

DInit ==
  /\ table \in {ps \o cs : ps \in SeededPages, cs \in SeededComponents}
  /\ startTable = table
  /\ rerun = FALSE
  /\ steps = {}
  /\ pc = "scan_pages"
  /\ exitCode = 0
  /\ last_key = <<>>
  /\ pages = <<>>
  /\ pages_to_delete = <<>>
  /\ components = <<>>
  /\ components_to_delete = <<>>
  /\ i = 1
  /\ report = <<>>
  /\ calls = <<>>
  /\ scanError = FALSE
  /\ prev = NoPrev
  /\ MIdle

\* aws_cmd, lines 15-17: the command failed
ScanFails ==
  /\ pc \in {"scan_pages", "scan_components"}
  /\ scanError' = TRUE
  /\ exitCode' = 1
  /\ pc' = "exited"
  /\ steps' = steps
  /\ UNCHANGED mvars
  /\ UNCHANGED <<table, rerun, last_key, pages, pages_to_delete, components,
                 components_to_delete, i, report, calls, startTable, prev>>

\* scan_all, one turn of the loop, for the page scan of step 1
ScanPages ==
  /\ pc = "scan_pages"
  /\ \E stop \in ScanStops :
       LET data == ScanResponse(PAGE_PREFIX, stop)
       IN /\ pages' = pages \o data.Items
          /\ last_key' = data.LastEvaluatedKey
          /\ pc' = IF data.LastEvaluatedKey = <<>> THEN "group" ELSE pc
  /\ steps' = IF pc' = "group" THEN steps \cup {"pages_scanned"} ELSE steps
  /\ UNCHANGED mvars
  /\ UNCHANGED <<table, rerun, exitCode, pages_to_delete, components,
                 components_to_delete, i, report, calls, scanError,
                 startTable, prev>>

\* lines 67-93
FindDuplicates ==
  /\ pc = "group"
  /\ pages_to_delete' = MarkDuplicates(pages)
  /\ IF pages_to_delete' = <<>>
       THEN pc' = "exited" /\ exitCode' = 0
       ELSE pc' = "scan_components" /\ exitCode' = exitCode
  /\ steps' = steps \cup {"grouped"}
  /\ UNCHANGED mvars
  /\ UNCHANGED <<table, rerun, last_key, pages, components,
                 components_to_delete, i, report, calls, scanError,
                 startTable, prev>>

\* mutant: the component scan takes the first response for the whole result,
\* whatever LastEvaluatedKey it holds
ScanComponents_FirstResponseOnly ==
  /\ pc = "scan_components"
  /\ \E stop \in ScanStops :
       LET data == ScanResponse(COMPONENT_PREFIX, stop)
       IN /\ components' = components \o data.Items
          /\ last_key' = <<>>
          /\ pc' = "orphans"
  /\ steps' = steps \cup {"components_scanned"}
  /\ UNCHANGED mvars
  /\ UNCHANGED <<table, rerun, exitCode, pages, pages_to_delete,
                 components_to_delete, i, report, calls, scanError,
                 startTable, prev>>

\* scan_all, one turn of the loop, for the component scan of step 3
ScanComponents ==
  /\ pc = "scan_components"
  /\ \E stop \in ScanStops :
       LET data == ScanResponse(COMPONENT_PREFIX, stop)
       IN /\ components' = components \o data.Items
          /\ last_key' = data.LastEvaluatedKey
          /\ pc' = IF data.LastEvaluatedKey = <<>> THEN "orphans" ELSE pc
  /\ steps' = IF pc' = "orphans" THEN steps \cup {"components_scanned"} ELSE steps
  /\ UNCHANGED mvars
  /\ UNCHANGED <<table, rerun, exitCode, pages, pages_to_delete,
                 components_to_delete, i, report, calls, scanError,
                 startTable, prev>>

\* lines 104-120
MarkOrphans ==
  /\ pc = "orphans"
  /\ components_to_delete' = FindOrphans(components, pages_to_delete)
  /\ pc' = IF components_to_delete' # <<>> THEN "delete_components"
                                          ELSE "delete_pages"
  /\ i' = 1
  /\ steps' = steps \cup {"orphans_marked"}
  /\ UNCHANGED mvars
  /\ UNCHANGED <<table, rerun, exitCode, last_key, pages, pages_to_delete,
                 components, report, calls, scanError, startTable, prev>>

\* mutant: the component loop is left at the first failed delete call
DeleteComponent_BreakOnFailure ==
  /\ pc = "delete_components"
  /\ \E ok \in BOOLEAN :
       LET c == components_to_delete[i]
       IN /\ table' = StoreAfterDelete(table, c.pk, c.sk, ok)
          /\ calls' = Append(calls, DeleteCall("component", c, ok))
          /\ IF ok /\ i < Len(components_to_delete)
               THEN i' = i + 1 /\ pc' = pc
               ELSE i' = 1 /\ pc' = "delete_pages"
  /\ steps' = steps
  /\ UNCHANGED mvars
  /\ UNCHANGED <<rerun, exitCode, last_key, pages, pages_to_delete,
                 components, components_to_delete, report, scanError,
                 startTable, prev>>

\* lines 122-124, one turn of the loop
DeleteComponent ==
  /\ pc = "delete_components"
  /\ \E ok \in BOOLEAN :
       LET c == components_to_delete[i]
       IN /\ table' = StoreAfterDelete(table, c.pk, c.sk, ok)
          /\ calls' = Append(calls, DeleteCall("component", c, ok))
  /\ IF i < Len(components_to_delete)
       THEN i' = i + 1 /\ pc' = pc
       ELSE i' = 1 /\ pc' = "delete_pages"
  /\ steps' = steps
  /\ UNCHANGED mvars
  /\ UNCHANGED <<rerun, exitCode, last_key, pages, pages_to_delete,
                 components, components_to_delete, report, scanError,
                 startTable, prev>>

\* mutant: delete_item leaves the process with 1 when the command fails, as
\* aws_cmd does
DeletePage_ExitOnFailure ==
  /\ pc = "delete_pages"
  /\ \E ok \in BOOLEAN :
       LET p == pages_to_delete[i]
       IN /\ table' = StoreAfterDelete(table, p.pk, p.sk, ok)
          /\ calls' = Append(calls, DeleteCall("page", p, ok))
          /\ IF ~ok THEN i' = i /\ pc' = "exited" /\ exitCode' = 1
             ELSE IF i < Len(pages_to_delete)
               THEN i' = i + 1 /\ pc' = pc /\ exitCode' = exitCode
               ELSE i' = 1 /\ pc' = "report" /\ exitCode' = exitCode
  /\ steps' = steps
  /\ UNCHANGED mvars
  /\ UNCHANGED <<rerun, last_key, pages, pages_to_delete,
                 components, components_to_delete, report, scanError,
                 startTable, prev>>

\* lines 128-130, one turn of the loop
DeletePage ==
  /\ pc = "delete_pages"
  /\ \E ok \in BOOLEAN :
       LET p == pages_to_delete[i]
       IN /\ table' = StoreAfterDelete(table, p.pk, p.sk, ok)
          /\ calls' = Append(calls, DeleteCall("page", p, ok))
  /\ IF i < Len(pages_to_delete)
       THEN i' = i + 1 /\ pc' = pc
       ELSE i' = 1 /\ pc' = "report"
  /\ steps' = steps
  /\ UNCHANGED mvars
  /\ UNCHANGED <<rerun, exitCode, last_key, pages, pages_to_delete,
                 components, components_to_delete, report, scanError,
                 startTable, prev>>

\* lines 132-133, then the script ends
FinalReport(ptd, ctd, ps) ==
  [duplicates |-> Len(ptd), orphans |-> Len(ctd),
   remaining |-> Len(ps) - Len(ptd)]

Report ==
  /\ pc = "report"
  /\ report' = <<FinalReport(pages_to_delete, components_to_delete, pages)>>
  /\ pc' = "exited"
  /\ exitCode' = 0
  /\ steps' = steps \cup {"reported"}
  /\ UNCHANGED mvars
  /\ UNCHANGED <<table, rerun, last_key, pages, pages_to_delete, components,
                 components_to_delete, i, calls, scanError, startTable, prev>>

\* the script, having run to completion, is started again on the table it left
RunAgain ==
  /\ pc = "exited"
  /\ exitCode = 0
  /\ ~rerun
  /\ rerun' = TRUE
  /\ steps' = {}
  /\ prev' = [exitCode |-> exitCode,
              failed |-> \E k \in 1..Len(calls) : ~calls[k].ok,
              deleted |-> Len(startTable) - Len(table)]
  /\ startTable' = table
  /\ pc' = "scan_pages"
  /\ exitCode' = 0
  /\ last_key' = <<>>
  /\ pages' = <<>>
  /\ pages_to_delete' = <<>>
  /\ components' = <<>>
  /\ components_to_delete' = <<>>
  /\ i' = 1
  /\ report' = <<>>
  /\ calls' = <<>>
  /\ scanError' = FALSE
  /\ UNCHANGED mvars
  /\ UNCHANGED table

vars == <<dvars, mvars>>

Init == DInit

Next ==
  \/ ScanFails
  \/ ScanPages
  \/ FindDuplicates
  \/ ScanComponents
  \/ MarkOrphans
  \/ DeleteComponent
  \/ DeletePage
  \/ Report

\* one run of the deduplicator
Spec == Init /\ [][Next]_vars

NextTwice ==
  \/ Next
  \/ RunAgain

\* the deduplicator run twice in succession
TwiceSpec == Init /\ [][NextTwice]_vars


\* ------------------------------------------------- deduplicator: the claims
IsPage(r) == begins_with(r.PK, PAGE_PREFIX)
IsComponent(r) == begins_with(r.PK, COMPONENT_PREFIX)

SlugKey(p) == IF p.slug = {} THEN "" ELSE CHOOSE v \in p.slug : TRUE
CreatedKey(p) == IF p.createdAt = {} THEN 0 ELSE CHOOSE v \in p.createdAt : TRUE

IsMarked(p) ==
  \E k \in 1..Len(pages_to_delete) :
    pages_to_delete[k].pk = p.PK /\ pages_to_delete[k].sk = p.SK

IsOrphan(c) ==
  \E k \in 1..Len(components_to_delete) :
    components_to_delete[k].pk = c.PK /\ components_to_delete[k].sk = c.SK

SameSlug(k) == {j \in 1..Len(pages) : SlugKey(pages[j]) = SlugKey(pages[k])}

FailedCalls == {k \in 1..Len(calls) : ~calls[k].ok}

CallsFor(kind, e) ==
  {k \in 1..Len(calls) :
     calls[k].kind = kind /\ calls[k].pk = e.pk /\ calls[k].sk = e.sk}

\* C1: after the marking step, of the scanned pages that share a slug (a
\* missing slug being the slug "") exactly one is not in pages_to_delete and
\* it has the greatest createdAt of them; a page alone with its slug is not in
\* pages_to_delete; pages_to_delete lists scanned pages only, each once.
C1_KeepNewestPerSlug ==
  "grouped" \in steps =>
    /\ \A k \in 1..Len(pages) :
         LET kept == {j \in SameSlug(k) : ~IsMarked(pages[j])}
         IN /\ Cardinality(kept) = 1
            /\ \A j \in kept : \A l \in SameSlug(k) :
                 CreatedKey(pages[l]) <= CreatedKey(pages[j])
            /\ Cardinality(SameSlug(k)) = 1 => ~IsMarked(pages[k])
    /\ \A k \in 1..Len(pages_to_delete) :
         /\ \E j \in 1..Len(pages) : pages[j].PK = pages_to_delete[k].pk
         /\ \A l \in 1..Len(pages_to_delete) :
              pages_to_delete[l].pk = pages_to_delete[k].pk => l = k
    /\ Len(pages_to_delete) < Len(pages) \/ pages = <<>>

\* two pages without slug were one group, the older one of which, scanned
\* last, is marked under the slug ""; a page of another slug is kept
C1_Witness ==
  /\ "grouped" \in steps
  /\ Len(pages) = 3
  /\ Len(pages_to_delete) = 1
  /\ pages_to_delete[1].slug = ""
  /\ \E j, k, l \in 1..3 :
       /\ j < k
       /\ pages[j].slug = {} /\ pages[k].slug = {}
       /\ CreatedKey(pages[j]) > CreatedKey(pages[k])
       /\ IsMarked(pages[k]) /\ ~IsMarked(pages[j])
       /\ pages[l].slug = {"home"} /\ ~IsMarked(pages[l])

\* C2: after the orphan step, a scanned component is in components_to_delete
\* exactly if it has a pageId and "CMS_PAGE#" followed by that pageId is the PK
\* of a page in pages_to_delete; no component whose pageId names a scanned,
\* unmarked page is in components_to_delete or the target of a delete call.
C2_OrphansOfDeletedPagesOnly ==
  "orphans_marked" \in steps =>
    /\ \A k \in 1..Len(components) :
         LET c == components[k]
         IN IsOrphan(c) <=>
              \E id \in c.pageId : \E l \in 1..Len(pages_to_delete) :
                pages_to_delete[l].pk = <<PAGE_PREFIX>> \o id
    /\ \A k \in 1..Len(components_to_delete) :
         \E j \in 1..Len(components) :
           components[j].PK = components_to_delete[k].pk
    /\ \A k \in 1..Len(components) :
         LET c == components[k]
         IN (\E id \in c.pageId : \E j \in 1..Len(pages) :
               pages[j].PK = <<PAGE_PREFIX>> \o id /\ ~IsMarked(pages[j]))
            => /\ ~IsOrphan(c)
               /\ CallsFor("component", [pk |-> c.PK, sk |-> c.SK]) = {}

\* one component of a marked page and one of a kept page were scanned, and
\* the delete loops have run
C2_Witness ==
  /\ "reported" \in steps
  /\ Len(components) = 2
  /\ Len(components_to_delete) = 1
  /\ \E k \in 1..2 : \E id \in components[k].pageId : \E j \in 1..Len(pages) :
       pages[j].PK = <<PAGE_PREFIX>> \o id /\ ~IsMarked(pages[j])

NoSlugShared(t) ==
  \A j, k \in 1..Len(t) :
    IsPage(t[j]) /\ IsPage(t[k]) /\ SlugKey(t[j]) = SlugKey(t[k]) => j = k

\* C3 as stated: on a table where no slug has more than one page, the run
\* ends with exit code 0, an empty deletion set, no delete call and the table
\* unchanged.
C3_Original ==
  (NoSlugShared(startTable) /\ pc = "exited") =>
    /\ exitCode = 0
    /\ pages_to_delete = <<>>
    /\ calls = <<>>
    /\ table = startTable

\* C3 amended: on a table where no slug has more than one page, no delete call
\* is ever issued, the table stays as it was, the deletion set is empty, the
\* component scan is never started, and the run ends with exit code 0 unless
\* the page scan failed (then 1).
C3_NoDuplicatesNoMutation ==
  NoSlugShared(startTable) =>
    /\ pages_to_delete = <<>>
    /\ calls = <<>>
    /\ table = startTable
    /\ pc \in {"scan_pages", "group", "exited"}
    /\ pc = "exited" => exitCode = (IF scanError THEN 1 ELSE 0)
    /\ "grouped" \in steps => pc = "exited" /\ exitCode = 0

\* two pages of two slugs were scanned, and the run ended
C3_Witness ==
  /\ NoSlugShared(startTable)
  /\ Len(pages) = 2
  /\ \E k \in 1..Len(startTable) : IsComponent(startTable[k])
  /\ "grouped" \in steps
  /\ pc = "exited"

\* C5 as stated: a failed delete call is the last call of the run, which has
\* ended with exit code 1; exit code 0 means no call failed.
C5_Original ==
  /\ \A k \in FailedCalls : k = Len(calls) /\ pc = "exited" /\ exitCode = 1
  /\ (pc = "exited" /\ exitCode = 0) => FailedCalls = {}

\* C5 amended: the run ends with exit code 1 exactly when a scan call failed,
\* and then at once; a failed delete call does not end the run: the run goes on
\* through the remaining delete calls and ends with exit code 0.
C5_ExitCodeOneOnScanFailureOnly ==
  /\ scanError => pc = "exited" /\ exitCode = 1
  /\ pc = "exited" => (exitCode = 1 <=> scanError) /\ exitCode \in {0, 1}
  /\ (FailedCalls # {} /\ pc = "exited") =>
       /\ exitCode = 0
       /\ Len(calls) = Len(components_to_delete) + Len(pages_to_delete)

\* the first delete call failed, more calls followed, and the run ended with 0
C5_Witness ==
  /\ pc = "exited"
  /\ exitCode = 0
  /\ Len(calls) >= 3
  /\ 1 \in FailedCalls
  /\ calls[Len(calls)].ok

\* C6: once the delete loops are left, every entry of components_to_delete and
\* every entry of pages_to_delete has had exactly one delete call with its key,
\* and there were no other calls, whichever calls failed; and a run that has
\* started the delete loops ends only after them.
C6_EveryMarkedRecordOneCall ==
  /\ ("orphans_marked" \in steps /\ pc \in {"report", "exited"}) =>
       /\ \A k \in 1..Len(components_to_delete) :
            Cardinality(CallsFor("component", components_to_delete[k])) = 1
       /\ \A k \in 1..Len(pages_to_delete) :
            Cardinality(CallsFor("page", pages_to_delete[k])) = 1
       /\ Len(calls) = Len(components_to_delete) + Len(pages_to_delete)
  /\ "orphans_marked" \in steps => (pc = "exited" => "reported" \in steps)

\* a component call and a page call failed, and every marked record was called
C6_Witness ==
  /\ "reported" \in steps
  /\ Len(components_to_delete) = 2
  /\ Len(pages_to_delete) = 2
  /\ \E j, k \in FailedCalls :
       j < k /\ k < Len(calls) /\ calls[j].kind = "component"
       /\ calls[k].kind = "page"

PagesOf(t) == MapSeq(SelectSeq(t, IsPage), ProjectPage)
ComponentsOf(t) == MapSeq(SelectSeq(t, IsComponent), ProjectComponent)

\* C9: no delete call on a component follows a delete call on a page; when the
\* first delete call is issued both scans have returned every page and every
\* component of the table; a failed scan ends the run with exit code 1, no
\* delete call and the table as the run found it.
C9_ScansThenComponentsThenPages ==
  /\ \A j, k \in 1..Len(calls) :
       (j < k /\ calls[j].kind = "page") => calls[k].kind = "page"
  /\ calls # <<>> =>
       /\ {"pages_scanned", "components_scanned"} \subseteq steps
       /\ pages = PagesOf(startTable)
       /\ components = ComponentsOf(startTable)
  /\ scanError =>
       pc = "exited" /\ exitCode = 1 /\ calls = <<>> /\ table = startTable

\* two components were deleted, then a page
C9_Witness ==
  /\ Len(calls) >= 3
  /\ calls[1].kind = "component" /\ calls[2].kind = "component"
  /\ calls[3].kind = "page"
  /\ calls[1].ok /\ calls[3].ok

\* the component scan failed after duplicates were found
C9_WitnessScanFailure ==
  /\ scanError
  /\ "grouped" \in steps
  /\ components # <<>>

Removed(Kind(_)) ==
  Cardinality({k \in 1..Len(startTable) :
                 Kind(startTable[k])
                 /\ \A j \in 1..Len(table) : table[j].PK # startTable[k].PK})

Remaining(Kind(_)) == Cardinality({k \in 1..Len(table) : Kind(table[k])})

\* C10: the final report names the number of pages removed from the table,
\* the number of components removed from it, and the number of pages left in
\* it, which is the number of distinct slugs.
C10_ReportMatchesTable ==
  report # <<>> =>
    /\ report[1].duplicates = Removed(IsPage)
    /\ report[1].orphans = Removed(IsComponent)
    /\ report[1].remaining = Remaining(IsPage)
    /\ report[1].remaining =
         Cardinality({SlugKey(table[k]) : k \in {j \in 1..Len(table) : IsPage(table[j])}})

MaxItems == 2
MaxFields == 2

HERO_ID == "714d9008-32f7-47e9-a9c3-325a9269c172"
EVENTS_TYPE == "upcoming_events"

Field(key, value) == [key |-> key, value |-> value]

\* lines 12-27
new_fields ==
  <<Field("slides", "new"), Field("overlayOpacity", "new"),
    Field("enableParallax", "new")>>

\* lines 52-64
events_field == Field("events", "new")

HeroKey == <<COMPONENT_PREFIX, HERO_ID>>

\* fields an item can hold before the migrator is first run
OldFields ==
  {Field("title", "t1"), Field("title", "t2"), Field("subtitle", "s1"),
   Field("events", "old"), Field("description", "d1")}

OldFieldLists == UNION {[1..n -> OldFields] : n \in 0..MaxFields}

DevItem(id, type, fields) ==
  [PK |-> <<COMPONENT_PREFIX, id>>, SK |-> <<COMPONENT_PREFIX, id>>,
   componentType |-> type, fields |-> fields]

EventsItems(id) ==
  {DevItem(id, {EVENTS_TYPE}, fs) :
     fs \in {{}} \cup {{l} : l \in OldFieldLists}}

OtherItems(id) == {DevItem(id, {"text_block"}, {<<Field("description", "d1")>>})}

HeroItems ==
  {<<>>} \cup
  {<<DevItem(HERO_ID, {"hero_section"}, fs)>> :
     fs \in {{}, {<<Field("heading", "h1")>>}}}

\* the tables of n items besides the hero component
SeededItems(n) ==
  {[k \in 1..n |-> f[k]] :
     f \in {g \in [1..n -> UNION {EventsItems(ToString(k)) \cup
                                  OtherItems(ToString(k)) : k \in 1..n}] :
              \A k \in 1..n : g[k].PK = <<COMPONENT_PREFIX, ToString(k)>>}}

\* table.update_item(Key=..., UpdateExpression='SET #f = :fields'): the item of
\* that key gets the fields; when the table has no such item, one is created
update_item(t, pk, sk, fields) ==
  IF \E k \in 1..Len(t) : t[k].PK = pk /\ t[k].SK = sk
    THEN [k \in 1..Len(t) |->
            IF t[k].PK = pk /\ t[k].SK = sk
              THEN [t[k] EXCEPT !.fields = {fields}] ELSE t[k]]
    ELSE Append(t, [PK |-> pk, SK |-> sk, componentType |-> {},
                    fields |-> {fields}])

\* table.scan(FilterExpression=Attr('componentType').eq(...)): the store
\* answers with the matching items of the first stretch of the table, up to
\* `stop`, and with a LastEvaluatedKey unless the stretch ends the table
DevScanStops == IF devTable = <<>> THEN {0} ELSE 1..Len(devTable)

DevScanResponse(stop) ==
  [Items |-> SelectSeq(SubSeq(devTable, 1, stop),
                       LAMBDA r : r.componentType = {EVENTS_TYPE}),
   LastEvaluatedKey |-> IF stop < Len(devTable) THEN <<stop>> ELSE <<>>]

\* next((f for f in existing_fields if f['key'] == key), None), as a list of
\* at most one field
FirstField(existing_fields, key) ==
  LET hits == SelectSeq(existing_fields, LAMBDA f : f.key = key)
  IN IF hits = <<>> THEN <<>> ELSE <<hits[1]>>

\* lines 43-64
new_event_fields(item) ==
  LET existing_fields == GetS(item.fields, <<>>)
      title_field == FirstField(existing_fields, "title")
      subtitle_field == FirstField(existing_fields, "subtitle")
  IN title_field \o subtitle_field \o <<events_field>>

DIdle ==
  /\ table = <<>>
  /\ startTable = <<>>
  /\ rerun = FALSE
  /\ steps = {}
  /\ pc = "idle"
  /\ exitCode = 0
  /\ last_key = <<>>
  /\ pages = <<>>
  /\ pages_to_delete = <<>>
  /\ components = <<>>
  /\ components_to_delete = <<>>
  /\ i = 1
  /\ report = <<>>
  /\ calls = <<>>
  /\ scanError = FALSE
  /\ prev = NoPrev

MInit ==
  /\ \E n \in 0..MaxItems :
       devTable \in {h \o l : h \in HeroItems, l \in SeededItems(n)}
  /\ devStart = devTable
  /\ mpc = "hero"
  /\ events_data = NoResponse
  /\ item_no = 1
  /\ mrerun = FALSE
  /\ DIdle

\* lines 29-35
UpdateHero ==
  /\ mpc = "hero"
  /\ devTable' = update_item(devTable, HeroKey, HeroKey, new_fields)
  /\ mpc' = "scan"
  /\ UNCHANGED <<events_data, item_no, mrerun, devStart>>
  /\ UNCHANGED dvars

\* lines 38-40: one scan call, whatever LastEvaluatedKey it returns
ScanEvents ==
  /\ mpc = "scan"
  /\ \E stop \in DevScanStops : events_data' = DevScanResponse(stop)
  /\ item_no' = 1
  /\ mpc' = "events"
  /\ UNCHANGED <<devTable, mrerun, devStart>>
  /\ UNCHANGED dvars

\* lines 41-72, one turn of the loop
MigrateEvent ==
  /\ mpc = "events"
  /\ item_no <= Len(events_data.Items)
  /\ LET item == events_data.Items[item_no]
     IN devTable' = update_item(devTable, item.PK, item.SK,
                                new_event_fields(item))
  /\ item_no' = item_no + 1
  /\ UNCHANGED <<mpc, events_data, mrerun, devStart>>
  /\ UNCHANGED dvars

\* line 74
MigrationComplete ==
  /\ mpc = "events"
  /\ item_no > Len(events_data.Items)
  /\ mpc' = "done"
  /\ UNCHANGED <<devTable, events_data, item_no, mrerun, devStart>>
  /\ UNCHANGED dvars

\* the migrator is started again on the table the first run left
MigrateAgain ==
  /\ mpc = "done"
  /\ ~mrerun
  /\ mrerun' = TRUE
  /\ devStart' = devTable
  /\ mpc' = "hero"
  /\ events_data' = NoResponse
  /\ item_no' = 1
  /\ UNCHANGED devTable
  /\ UNCHANGED dvars

MigNext ==
  \/ UpdateHero
  \/ ScanEvents
  \/ MigrateEvent
  \/ MigrationComplete
  \/ MigrateAgain

\* the field migrator, run twice in succession
MigSpec == MInit /\ [][MigNext]_vars

\* --------------------------------------------- field migrator: the claims
StartItem(pk) == CHOOSE r \in Range(devStart) : r.PK = pk

PriorFields(r) ==
  IF \E q \in Range(devStart) : q.PK = r.PK
    THEN LET q == StartItem(r.PK)
         IN IF q.fields = {} THEN <<>> ELSE CHOOSE l \in q.fields : TRUE
    ELSE <<>>

Keys(l) == [k \in 1..Len(l) |-> l[k].key]

\* the list is what was kept of `prior` followed by the new events entry
IsMigrated(l, prior) ==
  LET hasTitle == \E k \in 1..Len(prior) : prior[k].key = "title"
      hasSubtitle == \E k \in 1..Len(prior) : prior[k].key = "subtitle"
      kept == (IF hasTitle THEN <<"title">> ELSE <<>>)
              \o (IF hasSubtitle THEN <<"subtitle">> ELSE <<>>)
  IN /\ Keys(l) = kept \o <<"events">>
     /\ l[Len(l)] = events_field
     /\ \A k \in 1..(Len(l) - 1) : \E j \in 1..Len(prior) : prior[j] = l[k]

\* C7: when a run of the migrator ends, every item of the table whose
\* componentType is 'upcoming_events' holds its prior title entry (if it had
\* one), its prior subtitle entry (if it had one) and the new events entry,
\* in that order and nothing else, however the store pages the scan.
C7_AllEventsComponentsMigrated ==
  mpc = "done" =>
    \A k \in 1..Len(devTable) :
      devTable[k].componentType = {EVENTS_TYPE} =>
        \E l \in devTable[k].fields : IsMigrated(l, PriorFields(devTable[k]))

\* C8: the second of two runs leaves every item's fields as the first run
\* left them.
C8_SecondRunChangesNothing ==
  (mrerun /\ mpc = "done") =>
    /\ Len(devTable) = Len(devStart)
    /\ \A k \in 1..Len(devTable) : devTable[k].fields = devStart[k].fields

====
